---------------------------- MODULE Spec2Model ----------------------------
(***************************************************************************)
(* A model of the bgpkit-api request handlers (src/src/api) and of the     *)
(* ROA interval normalizer RoasRawEntry::to_roas_entry.                    *)
(*                                                                         *)
(* Spec      one request at a time through search_broker, search_asninfo,  *)
(*           search_roas or search_peer_stats, the store call included.    *)
(* SpecRoas  to_roas_entry applied to bounded lists of raw intervals.      *)
(***************************************************************************)
EXTENDS Integers, Sequences, FiniteSets, TLC

(***************************************************************************)
(* Option<T>: None is the empty tuple, Some(x) the tuple of x.             *)
(***************************************************************************)
None == <<>>
Some(x) == <<x>>
IsSome(o) == o # <<>>
Unwrap(o) == o[1]

(***************************************************************************)
(* usize.  The handlers multiply, add and subtract usize values that come  *)
(* from the query string, so the width matters.  A usize is kept as its    *)
(* little-endian digits in base 2^8, which keeps every intermediate value  *)
(* within the model checker's integers.                                    *)
(***************************************************************************)
UsizeBits == 64
LimbBase == 2^8
NLimbs == UsizeBits \div 8

Usize(n) ==
    [k \in 1..NLimbs |->
        IF k <= 3 THEN (n \div (LimbBase^(k-1))) % LimbBase
        ELSE IF k = 4 THEN n \div (LimbBase^3)
        ELSE 0]

UsizeMAX == [k \in 1..NLimbs |-> LimbBase - 1]

RECURSIVE UCmpFrom(_, _, _)
UCmpFrom(a, b, k) ==
    IF k = 0 THEN 0
    ELSE IF a[k] < b[k] THEN -1
    ELSE IF a[k] > b[k] THEN 1
    ELSE UCmpFrom(a, b, k-1)

\* a > b, a <= b on usize
UGt(a, b) == UCmpFrom(a, b, NLimbs) = 1
ULe(a, b) == UCmpFrom(a, b, NLimbs) # 1

RECURSIVE UAddDigits(_, _, _, _)
UAddDigits(a, b, k, carry) ==
    IF k > NLimbs THEN <<carry>>
    ELSE LET s == a[k] + b[k] + carry
         IN  <<s % LimbBase>> \o UAddDigits(a, b, k+1, s \div LimbBase)

RECURSIVE USubDigits(_, _, _, _)
USubDigits(a, b, k, borrow) ==
    IF k > NLimbs THEN <<borrow>>
    ELSE LET d == a[k] - b[k] - borrow
         IN  <<d % LimbBase>> \o USubDigits(a, b, k+1, IF d < 0 THEN 1 ELSE 0)

RECURSIVE ColSum(_, _, _, _)
ColSum(a, b, k, i) ==
    IF i > NLimbs THEN 0
    ELSE (IF (k + 1 - i) \in 1..NLimbs THEN a[i] * b[k + 1 - i] ELSE 0)
         + ColSum(a, b, k, i+1)

RECURSIVE UMulDigits(_, _, _, _)
UMulDigits(a, b, k, carry) ==
    IF k > 2 * NLimbs THEN <<>>
    ELSE LET s == ColSum(a, b, k, 1) + carry
         IN  <<s % LimbBase>> \o UMulDigits(a, b, k+1, s \div LimbBase)

(***************************************************************************)
(* a + b, a - b, a * b on usize: v is the result modulo 2^UsizeBits and    *)
(* of tells whether the exact result does not fit.                         *)
(***************************************************************************)
UAdd(a, b) ==
    LET d == UAddDigits(a, b, 1, 0)
    IN  [v |-> SubSeq(d, 1, NLimbs), of |-> d[NLimbs + 1] # 0]

USub(a, b) ==
    LET d == USubDigits(a, b, 1, 0)
    IN  [v |-> SubSeq(d, 1, NLimbs), of |-> d[NLimbs + 1] # 0]

UMul(a, b) ==
    LET d == UMulDigits(a, b, 1, 0)
    IN  [v |-> SubSeq(d, 1, NLimbs),
         of |-> \E k \in (NLimbs + 1)..(2 * NLimbs) : d[k] # 0]


(***************************************************************************)
(* The build.  Integer overflow in Rust panics when the crate is built     *)
(* with overflow checks (the dev profile) and wraps otherwise (the release *)
(* profile); both builds are behaviours of the program.                    *)
(***************************************************************************)
Builds == BOOLEAN

(***************************************************************************)
(* Pagination (api/mod.rs).  A Pagination value is the record              *)
(* [page, page_size] of two Option<usize>.                                 *)
(***************************************************************************)
extract(pagination, max_page_size) ==
    << IF pagination.page = None THEN Usize(0) ELSE Unwrap(pagination.page),
       IF pagination.page_size = None THEN Usize(10)
       ELSE IF UGt(Unwrap(pagination.page_size), max_page_size)
            THEN max_page_size
            ELSE Unwrap(pagination.page_size) >>

(***************************************************************************)
(* The page size of search_asninfo and of search_roas, which do not call   *)
(* extract: the same clamp to 1000 with a default of their own.            *)
(***************************************************************************)
page_size_or(pagination, default_size) ==
    IF pagination.page_size = None THEN Usize(default_size)
    ELSE IF UGt(Unwrap(pagination.page_size), Usize(1000))
         THEN Usize(1000)
         ELSE Unwrap(pagination.page_size)

page_or_zero(pagination) ==
    IF pagination.page = None THEN Usize(0) ELSE Unwrap(pagination.page)

(***************************************************************************)
(* let low = page * page_size; let high = (page + 1) * page_size - 1;      *)
(* panic: some step overflowed in a build with overflow checks.  Without   *)
(* them every step wraps.                                                  *)
(***************************************************************************)
low_high(page, page_size, overflow_checks) ==
    LET low  == UMul(page, page_size)
        next == UAdd(page, Usize(1))
        prod == UMul(next.v, page_size)
        high == USub(prod.v, Usize(1))
    IN  [panic |-> overflow_checks /\ (low.of \/ next.of \/ prod.of \/ high.of),
         low   |-> low.v,
         high  |-> high.v]

\* let offset = page * page_size;  (search_roas)
offset_of(page, page_size, overflow_checks) ==
    LET offset == UMul(page, page_size)
    IN  [panic |-> overflow_checks /\ offset.of, offset |-> offset.v]

(***************************************************************************)
(* Strings.  A query value is a string literal; what a parser makes of it  *)
(* is tabulated for the literals the model sends.  Formatting builds the   *)
(* text digit by digit.                                                    *)
(***************************************************************************)
Digits == <<"0", "1", "2", "3", "4", "5", "6", "7", "8", "9">>
Pad2(n) == Digits[(n \div 10) + 1] \o Digits[(n % 10) + 1]

(***************************************************************************)
(* Time.  A NaiveDateTime is its number of seconds since the Unix epoch.   *)
(* chrono represents a bounded range of them (about +-262000 years) and    *)
(* panics outside it; the model checker's integers are narrower than i64,  *)
(* so the range is scaled to -NaiveSecsRange..NaiveSecsRange, keeping the  *)
(* order: query times < range < durations past the range < i64::MAX.       *)
(***************************************************************************)
NaiveSecsRange == 200000
I64MAX == 16 * NaiveSecsRange
InNaiveRange(t) == t \in (0 - NaiveSecsRange)..NaiveSecsRange

\* str::parse::<i64>
ParseI64(s) ==
    CASE s = "60" -> Some(60)
      [] s = "9223372036854775807" -> Some(I64MAX)
      [] OTHER -> None

\* NaiveDateTime::from_str
NaiveDateTime_from_str(s) ==
    CASE s = "1970-01-01T00:02:00" -> Some(120)
      [] OTHER -> None

\* humantime::parse_duration: the seconds of the std Duration
parse_duration(s) ==
    CASE s = "1m" -> Some(60)
      [] s = "300000years" -> Some(2 * NaiveSecsRange + 1)
      [] s = "1000000000years" -> Some(8 * NaiveSecsRange)
      [] OTHER -> None

\* chrono::Duration::from_std: Err above chrono's largest Duration
ChronoDurationMax == 4 * NaiveSecsRange
Duration_from_std(d) == IF d > ChronoDurationMax THEN None ELSE Some(d)

\* NaiveDateTime::from_timestamp(secs, 0): panics out of range
from_timestamp(secs) ==
    IF InNaiveRange(secs) THEN [panic |-> FALSE, t |-> secs]
    ELSE [panic |-> TRUE, t |-> 0]

\* NaiveDateTime + Duration, NaiveDateTime - Duration: panic on overflow
naive_add(t, d) ==
    IF InNaiveRange(t + d) THEN [panic |-> FALSE, t |-> t + d]
    ELSE [panic |-> TRUE, t |-> 0]

\* Faulty variant of naive_sub: the duration added instead of subtracted.
naive_sub_adds(t, d) ==
    IF InNaiveRange(t + d) THEN [panic |-> FALSE, t |-> t + d]
    ELSE [panic |-> TRUE, t |-> 0]

naive_sub(t, d) ==
    IF InNaiveRange(t - d) THEN [panic |-> FALSE, t |-> t - d]
    ELSE [panic |-> TRUE, t |-> 0]

\* The calendar days around the epoch, from 1969-12-30 on.
EpochDates == <<"1969-12-30", "1969-12-31", "1970-01-01", "1970-01-02", "1970-01-03">>

\* NaiveDateTime::format("%Y-%m-%dT%X")
format_naive(t) ==
    LET day == t \div 86400
        sod == t % 86400
    IN  (IF (day + 3) \in DOMAIN EpochDates THEN EpochDates[day + 3] ELSE "????-??-??")
        \o "T" \o Pad2(sod \div 3600) \o ":" \o Pad2((sod % 3600) \div 60)
        \o ":" \o Pad2(sod % 60)

(***************************************************************************)
(* A comma-separated query value is kept as its sequence of characters, so *)
(* that str::split and str::trim are computed on the text.                 *)
(***************************************************************************)
Whitespace == {" ", "\t", "\n"}

RECURSIVE split(_, _)
split(s, sep) ==
    IF \A i \in 1..Len(s) : s[i] # sep THEN <<s>>
    ELSE LET i == CHOOSE i \in 1..Len(s) :
                     s[i] = sep /\ \A j \in 1..(i-1) : s[j] # sep
         IN  <<SubSeq(s, 1, i-1)>> \o split(SubSeq(s, i+1, Len(s)), sep)

RECURSIVE trim_start(_)
trim_start(s) ==
    IF s # <<>> /\ Head(s) \in Whitespace THEN trim_start(Tail(s)) ELSE s

RECURSIVE trim_end(_)
trim_end(s) ==
    IF s # <<>> /\ s[Len(s)] \in Whitespace
    THEN trim_end(SubSeq(s, 1, Len(s) - 1))
    ELSE s

trim(s) == trim_end(trim_start(s))

Map(f(_), s) == [i \in 1..Len(s) |-> f(s[i])]

(***************************************************************************)
(* ApiError (api/error.rs) and what a handler returns.  A response is      *)
(*   kind "json":  200 with the body,                                      *)
(*   kind "error": ApiError::into_response, {status_code, errors},        *)
(*   kind "panic": the handler panicked: no response is written.           *)
(***************************************************************************)
new_internal(err) == [status_code |-> 500, errors |-> <<err>>]
new_bad_request(err) == [status_code |-> 400, errors |-> <<err>>]

NoResponse == [kind |-> "none", status_code |-> 0, errors |-> <<>>, body |-> <<>>]
Panicked == [kind |-> "panic", status_code |-> 0, errors |-> <<>>, body |-> <<>>]
into_response(e) ==
    [kind |-> "error", status_code |-> e.status_code, errors |-> e.errors,
     body |-> <<>>]
Json(b) == [kind |-> "json", status_code |-> 200, errors |-> <<>>, body |-> <<b>>]

(***************************************************************************)
(* The store (db/mod.rs and the postgrest client).  One call ends in one   *)
(* of: the request fails, the body cannot be read, the body is not the     *)
(* JSON the handler decodes, or rows.                                      *)
(***************************************************************************)
MaxRows == 2

\* db::execute: Result<String, ApiError>
execute(outcome) ==
    IF outcome.kind = "request_failed"
    THEN [ok |-> FALSE, err |-> new_internal("database request failed")]
    ELSE IF outcome.kind = "text_failed"
    THEN [ok |-> FALSE, err |-> new_internal("extracting text from response failed")]
    ELSE [ok |-> TRUE, err |-> new_internal("")]

(***************************************************************************)
(* search_broker (api/broker.rs), up to the store call.                    *)
(***************************************************************************)
Filter(op, column, value) == [op |-> op, column |-> column, value |-> value]

\* One of ts_end / ts_start: a Unix timestamp first, a date-time string next.
parse_time(s) ==
    IF ParseI64(s) # None
    THEN LET r == from_timestamp(Unwrap(ParseI64(s)))
         IN  IF r.panic THEN [tag |-> "panic", v |-> None, msg |-> ""]
             ELSE [tag |-> "ok", v |-> Some(r.t), msg |-> ""]
    ELSE IF NaiveDateTime_from_str(s) # None
    THEN [tag |-> "ok", v |-> NaiveDateTime_from_str(s), msg |-> ""]
    ELSE [tag |-> "bad_request", v |-> None,
          msg |-> "cannot parse time string: " \o s]

parse_time_opt(o) ==
    IF o = None THEN [tag |-> "ok", v |-> None, msg |-> ""]
    ELSE parse_time(Unwrap(o))

Window(tag, start, end, msg) ==
    [tag |-> tag, ts_start |-> start, ts_end |-> end, msg |-> msg]

\* match (ts_start, ts_end) { ... }
resolve_window(start, end, duration) ==
    IF start # None /\ end = None /\ duration # None
    THEN LET d == parse_duration(Unwrap(duration))
         IN  IF d = None
             THEN Window("bad_request", start, end,
                         "cannot parse time duration string: " \o Unwrap(duration))
             ELSE IF Duration_from_std(Unwrap(d)) = None
             THEN Window("panic", start, end, "")
             ELSE LET r == naive_add(Unwrap(start), Unwrap(Duration_from_std(Unwrap(d))))
                  IN  IF r.panic THEN Window("panic", start, end, "")
                      ELSE Window("ok", start, Some(r.t), "")
    ELSE IF start = None /\ end # None /\ duration # None
    THEN LET d == parse_duration(Unwrap(duration))
         IN  IF d = None
             THEN Window("bad_request", start, end,
                         "cannot parse time duration string: " \o Unwrap(duration))
             ELSE IF Duration_from_std(Unwrap(d)) = None
             THEN Window("panic", start, end, "")
             ELSE LET r == naive_sub(Unwrap(end), Unwrap(Duration_from_std(Unwrap(d))))
                  IN  IF r.panic THEN Window("panic", start, end, "")
                      ELSE Window("ok", Some(r.t), end, "")
    ELSE Window("ok", start, end, "")

\* TIME FILTERS: ts_end is parsed first, ts_start next, then the duration.
time_window(q) ==
    LET e == parse_time_opt(q.ts_end)
    IN  IF e.tag # "ok" THEN Window(e.tag, None, None, e.msg)
        ELSE LET b == parse_time_opt(q.ts_start)
             IN  IF b.tag # "ok" THEN Window(b.tag, None, e.v, b.msg)
                 ELSE resolve_window(b.v, e.v, q.duration)

time_filters(w) ==
    (IF w.ts_end # None
     THEN <<Filter("lte", "ts_start", format_naive(Unwrap(w.ts_end)))>> ELSE <<>>)
    \o
    (IF w.ts_start # None
     THEN <<Filter("gte", "ts_end", format_naive(Unwrap(w.ts_start)))>> ELSE <<>>)

\* Faulty variant of project_filters: an unrecognized project taken for route-views.
project_filters_default_rv(q) ==
    IF q.project = None THEN <<>>
    ELSE IF Unwrap(q.project) \in {"ripe", "ripencc", "riperis", "ris"}
    THEN <<Filter("ilike", "collector_id", "rrc%")>>
    ELSE <<Filter("ilike", "collector_id", "route-views%")>>

\* COLLECTOR FILTERS
project_filters(q) ==
    IF q.project = None THEN <<>>
    ELSE IF Unwrap(q.project) \in {"route-views", "routeviews", "rv"}
    THEN <<Filter("ilike", "collector_id", "route-views%")>>
    ELSE IF Unwrap(q.project) \in {"ripe", "ripencc", "riperis", "ris"}
    THEN <<Filter("ilike", "collector_id", "rrc%")>>
    ELSE <<>>

collectors_filters(q) ==
    IF q.collectors = None THEN <<>>
    ELSE <<Filter("in", "collector_id", Map(trim, split(Unwrap(q.collectors), ",")))>>

\* str::to_lowercase
to_lowercase(s) ==
    CASE s = "RIB" -> "rib"
      [] s = "Updates" -> "updates"
      [] s = "BOGUS" -> "bogus"
      [] OTHER -> s

\* OTHERS
data_type_filters(q) ==
    IF q.data_type = None THEN <<>>
    ELSE IF to_lowercase(Unwrap(q.data_type)) \in {"update", "updates", "u"}
    THEN <<Filter("eq", "data_type", "update")>>
    ELSE IF to_lowercase(Unwrap(q.data_type)) \in {"rib", "ribs", "r"}
    THEN <<Filter("eq", "data_type", "rib")>>
    ELSE <<>>

(***************************************************************************)
(* What a handler has done when it reaches its store call, or how it ended *)
(* before: tag "call" (the query is sent), "bad_request" or "panic".       *)
(***************************************************************************)
NoWindow == [ts_start |-> None, ts_end |-> None]
NoQuery == [from |-> "", filters |-> <<>>, order |-> None, range |-> None,
            rpc |-> None]
Reached(tag, msg, w, dbq, pg, ps) ==
    [tag |-> tag, msg |-> msg, window |-> [ts_start |-> w.ts_start, ts_end |-> w.ts_end],
     db_query |-> dbq, page |-> pg, page_size |-> ps]

search_broker_query(q, pagination, overflow_checks) ==
    LET w  == time_window(q)
        pp == extract(pagination, Usize(1000))
        lh == low_high(pp[1], pp[2], overflow_checks)
    IN  IF w.tag # "ok"
        THEN Reached(w.tag, w.msg, NoWindow, NoQuery, Usize(0), Usize(0))
        ELSE IF lh.panic
        THEN Reached("panic", "", w, NoQuery, pp[1], pp[2])
        ELSE Reached("call", "", w,
                     [from    |-> "items",
                      filters |-> time_filters(w) \o project_filters(q)
                                  \o collectors_filters(q) \o data_type_filters(q),
                      order   |-> Some("ts_start.asc"),
                      range   |-> Some(<<lh.low, lh.high>>),
                      rpc     |-> None],
                     pp[1], pp[2])

(***************************************************************************)
(* Calendar dates.  A Date<Utc> is the index of its day in Calendar; the   *)
(* text of a date is parsed and formatted through the same table.          *)
(***************************************************************************)
Calendar ==
    <<"2021-12-27", "2021-12-28", "2021-12-29", "2021-12-30", "2021-12-31",
      "2022-01-01", "2022-01-02", "2022-01-03", "2022-01-04", "2022-01-05",
      "2022-01-06", "2022-01-07", "2022-01-08", "2022-01-09", "2022-01-10",
      "2022-01-11", "2022-01-12", "2022-01-13", "2022-01-14", "2022-01-15",
      "2022-01-16">>

\* Utc.datetime_from_str(.., "%Y-%m-%dT%H:%M:%SZ") / NaiveDate::from_str
parse_date(s) ==
    IF \E d \in DOMAIN Calendar : Calendar[d] = s
    THEN Some(CHOOSE d \in DOMAIN Calendar : Calendar[d] = s)
    ELSE None

\* Date::format("%Y-%m-%d")
format_date(d) == IF d \in DOMAIN Calendar THEN Calendar[d] ELSE "????-??-??"

(***************************************************************************)
(* RoasRawEntry::to_roas_entry (api/roas.rs).  A raw interval is the text  *)
(* of a range, "[2022-01-01,2022-01-05)", kept as its sequence of lexemes: *)
(* the bracket, the date, the comma, the date, the bracket.                *)
(***************************************************************************)
AsciiPunctuation == {"[", "]", "(", ")", ","}

starts_with(s, c) == s # <<>> /\ Head(s) = c
ends_with(s, c) == s # <<>> /\ s[Len(s)] = c

RECURSIVE trim_start_matches(_, _)
trim_start_matches(s, set) ==
    IF s # <<>> /\ Head(s) \in set THEN trim_start_matches(Tail(s), set) ELSE s

RECURSIVE trim_end_matches(_, _)
trim_end_matches(s, set) ==
    IF s # <<>> /\ s[Len(s)] \in set
    THEN trim_end_matches(SubSeq(s, 1, Len(s) - 1), set)
    ELSE s

trim_matches(s, set) == trim_end_matches(trim_start_matches(s, set), set)

\* The text of a piece of a split: its lexemes joined.
RECURSIVE concat(_)
concat(s) == IF s = <<>> THEN "" ELSE Head(s) \o concat(Tail(s))

\* Faulty variant of closed_range: an exclusive end is not retracted.
closed_range_keep_end(date_range) ==
    LET start_exclusive == starts_with(date_range, "(")
        dates  == split(trim_matches(date_range, AsciiPunctuation), ",")
        date_0 == IF Len(dates) >= 1 THEN parse_date(concat(dates[1])) ELSE None
        date_1 == IF Len(dates) >= 2 THEN parse_date(concat(dates[2])) ELSE None
    IN  IF date_0 = None \/ date_1 = None
        THEN [panic |-> TRUE, range |-> <<0, 0>>]
        ELSE [panic |-> FALSE,
              range |-> << IF start_exclusive THEN Unwrap(date_0) + 1 ELSE Unwrap(date_0),
                           Unwrap(date_1) >>]

\* The closure of the map over self.date_ranges, for one raw interval.
closed_range(date_range) ==
    LET start_exclusive == starts_with(date_range, "(")
        end_exclusive   == ends_with(date_range, ")")
        dates  == split(trim_matches(date_range, AsciiPunctuation), ",")
        date_0 == IF Len(dates) >= 1 THEN parse_date(concat(dates[1])) ELSE None
        date_1 == IF Len(dates) >= 2 THEN parse_date(concat(dates[2])) ELSE None
    IN  IF date_0 = None \/ date_1 = None
        THEN [panic |-> TRUE, range |-> <<0, 0>>]
        ELSE [panic |-> FALSE,
              range |-> << IF start_exclusive THEN Unwrap(date_0) + 1 ELSE Unwrap(date_0),
                           IF end_exclusive THEN Unwrap(date_1) - 1 ELSE Unwrap(date_1) >>]

\* Faulty variant of ends_recently: the comparison made strict.
ends_recently_strict(date_1, now_date) == date_1 > now_date - 1

\* if date_1 >= (Utc::now() - Duration::days(1)).date() { current = true; }
ends_recently(date_1, now_date) == date_1 >= now_date - 1

\* Faulty variant of single_day_gap: adjacent intervals taken for a one-day gap.
single_day_gap_adjacent(cur_end, date_0) == cur_end = date_0 - 1

\* if cur_end == date_0 - Duration::days(2)
single_day_gap(cur_end, date_0) == cur_end = date_0 - 2

\* Faulty variant of fix_gaps_from: the walk stops one interval short.
RECURSIVE fix_gaps_from_short(_, _, _, _, _)
fix_gaps_from_short(date_ranges, i, cur_start, cur_end, new_ranges) ==
    IF i >= Len(date_ranges)
    THEN Append(new_ranges, <<cur_start, cur_end>>)
    ELSE IF single_day_gap(cur_end, date_ranges[i][1])
    THEN fix_gaps_from_short(date_ranges, i + 1, cur_start, date_ranges[i][2], new_ranges)
    ELSE fix_gaps_from_short(date_ranges, i + 1, date_ranges[i][1], date_ranges[i][2],
                             Append(new_ranges, <<cur_start, cur_end>>))

\* for i in 1..(date_ranges.len()) { ... }; new_ranges.push(vec![cur_start, cur_end]);
RECURSIVE fix_gaps_from(_, _, _, _, _)
fix_gaps_from(date_ranges, i, cur_start, cur_end, new_ranges) ==
    IF i > Len(date_ranges)
    THEN Append(new_ranges, <<cur_start, cur_end>>)
    ELSE IF single_day_gap(cur_end, date_ranges[i][1])
    THEN fix_gaps_from(date_ranges, i + 1, cur_start, date_ranges[i][2], new_ranges)
    ELSE fix_gaps_from(date_ranges, i + 1, date_ranges[i][1], date_ranges[i][2],
                       Append(new_ranges, <<cur_start, cur_end>>))

\* Faulty variant of fix_gaps_of: the walk starts at the first interval again.
fix_gaps_of_from_first(date_ranges) ==
    IF date_ranges = <<>>
    THEN [panic |-> TRUE, ranges |-> <<>>]
    ELSE [panic |-> FALSE,
          ranges |-> fix_gaps_from(date_ranges, 1, date_ranges[1][1],
                                   date_ranges[1][2], <<>>)]

\* if fix_gaps { ... }: date_ranges[0] panics on an empty list
fix_gaps_of(date_ranges) ==
    IF date_ranges = <<>>
    THEN [panic |-> TRUE, ranges |-> <<>>]
    ELSE [panic |-> FALSE,
          ranges |-> fix_gaps_from(date_ranges, 2, date_ranges[1][1],
                                   date_ranges[1][2], <<>>)]

format_range(range) == <<format_date(range[1]), format_date(range[2])>>

RoasPanic == [panic |-> TRUE, current |-> FALSE, date_ranges |-> <<>>]

to_roas_entry(raw_date_ranges, fix_gaps, now_date) ==
    LET closed == [i \in 1..Len(raw_date_ranges) |-> closed_range(raw_date_ranges[i])]
        ranges == [i \in 1..Len(closed) |-> closed[i].range]
        current == \E i \in 1..Len(ranges) : ends_recently(ranges[i][2], now_date)
        fixed  == fix_gaps_of(ranges)
    IN  IF \E i \in 1..Len(closed) : closed[i].panic THEN RoasPanic
        ELSE IF fix_gaps /\ fixed.panic THEN RoasPanic
        ELSE [panic |-> FALSE,
              current |-> current,
              date_ranges |-> Map(format_range, IF fix_gaps THEN fixed.ranges ELSE ranges)]

(***************************************************************************)
(* search_asninfo (api/asninfo.rs), up to the store call.                  *)
(***************************************************************************)
\* u32::to_string
RECURSIVE to_string(_)
to_string(n) ==
    IF n < 10 THEN Digits[n + 1] ELSE to_string(n \div 10) \o Digits[(n % 10) + 1]

asninfo_filters(q) ==
    (IF q.asn # None THEN <<Filter("eq", "asn", to_string(Unwrap(q.asn)))>> ELSE <<>>)
    \o
    (IF q.asns # None THEN <<Filter("in", "asn", split(Unwrap(q.asns), ","))>> ELSE <<>>)
    \o
    (IF q.country # None
     THEN <<Filter("or", "",
                   "country_code.ilike.\"" \o Unwrap(q.country)
                   \o "\", country_name.ilike.\"*" \o Unwrap(q.country) \o "*\"")>>
     ELSE <<>>)
    \o
    (IF q.name # None
     THEN <<Filter("or", "",
                   "as_name.ilike.\"*" \o Unwrap(q.name)
                   \o "*\", org_name.ilike.\"*" \o Unwrap(q.name) \o "*\"")>>
     ELSE <<>>)

search_asninfo_query(q, pagination, overflow_checks) ==
    LET page_size == page_size_or(pagination, 50)
        page == page_or_zero(pagination)
        lh == low_high(page, page_size, overflow_checks)
    IN  IF lh.panic
        THEN Reached("panic", "", NoWindow, NoQuery, page, page_size)
        ELSE Reached("call", "", NoWindow,
                     [from    |-> "asn_view",
                      filters |-> asninfo_filters(q),
                      order   |-> None,
                      range   |-> Some(<<lh.low, lh.high>>),
                      rpc     |-> None],
                     page, page_size)

(***************************************************************************)
(* search_roas (api/roas.rs), up to the store call: the arguments of the   *)
(* query_history procedure.  now_date is the day Utc::today() returns.     *)
(***************************************************************************)
Quoted(o) == IF o = None THEN "\"\"" ELSE "\"" \o Unwrap(o) \o "\""
NumberOr(o) == IF o = None THEN "-1" ELSE to_string(Unwrap(o))

roas_dates(q, now_date) ==
    IF q.current = None
    THEN [date |-> Quoted(q.date), not_date |-> "\"\""]
    ELSE IF Unwrap(q.current)
    THEN [date |-> Quoted(Some(format_date(now_date - 1))), not_date |-> "\"\""]
    ELSE [date |-> "\"\"", not_date |-> Quoted(Some(format_date(now_date - 1)))]

search_roas_query(q, pagination, overflow_checks, now_date) ==
    LET page == page_or_zero(pagination)
        page_size == page_size_or(pagination, 100)
        off == offset_of(page, page_size, overflow_checks)
    IN  IF off.panic
        THEN Reached("panic", "", NoWindow, NoQuery, page, page_size)
        ELSE Reached("call", "", NoWindow,
                     [from    |-> "",
                      filters |-> <<>>,
                      order   |-> None,
                      range   |-> None,
                      rpc     |-> Some([name       |-> "query_history",
                                        res_limit  |-> page_size,
                                        res_offset |-> off.offset,
                                        prefix     |-> Quoted(q.prefix),
                                        asn        |-> NumberOr(q.asn),
                                        max_len    |-> NumberOr(q.max_len),
                                        nic        |-> Quoted(q.tal),
                                        date       |-> roas_dates(q, now_date).date,
                                        not_date   |-> roas_dates(q, now_date).not_date])],
                     page, page_size)

(***************************************************************************)
(* search_peer_stats (api/peers.rs), up to the store call.                 *)
(***************************************************************************)
\* Faulty variant of is_latest: an absent latest taken for false.
is_latest_only_explicit(q) == q.latest # None /\ Unwrap(q.latest)

is_latest(q) == q.latest = None \/ Unwrap(q.latest)

peers_date(q) ==
    IF is_latest(q) \/ q.date = None THEN [tag |-> "ok", filters |-> <<>>, msg |-> ""]
    ELSE IF parse_date(Unwrap(q.date)) = None
    THEN [tag |-> "bad_request", filters |-> <<>>,
          msg |-> "cannot parse date string: " \o Unwrap(q.date)]
    ELSE [tag |-> "ok",
          filters |-> <<Filter("eq", "date", format_date(Unwrap(parse_date(Unwrap(q.date)))))>>,
          msg |-> ""]

peers_filters(q) ==
    (IF q.asn # None THEN <<Filter("eq", "asn", to_string(Unwrap(q.asn)))>> ELSE <<>>)
    \o (IF q.collector # None THEN <<Filter("ilike", "collector", Unwrap(q.collector))>> ELSE <<>>)
    \o (IF q.ip # None THEN <<Filter("eq", "ip", Unwrap(q.ip))>> ELSE <<>>)
    \o peers_date(q).filters
    \o (IF q.min_v4 # None
        THEN <<Filter("gte", "num_v4_pfxs", to_string(Unwrap(q.min_v4)))>> ELSE <<>>)
    \o (IF q.min_v6 # None
        THEN <<Filter("gte", "num_v6_pfxs", to_string(Unwrap(q.min_v6)))>> ELSE <<>>)
    \o (IF q.min_connected # None
        THEN <<Filter("gte", "num_connected_asns", to_string(Unwrap(q.min_connected)))>>
        ELSE <<>>)

search_peer_stats_query(q, pagination, overflow_checks) ==
    LET pp == IF is_latest(q) THEN <<Usize(0), Usize(10000)>>
              ELSE extract(pagination, Usize(1000))
        lh == low_high(pp[1], pp[2], overflow_checks)
    IN  IF peers_date(q).tag # "ok"
        THEN Reached("bad_request", peers_date(q).msg, NoWindow, NoQuery, Usize(0), Usize(0))
        ELSE IF lh.panic
        THEN Reached("panic", "", NoWindow, NoQuery, pp[1], pp[2])
        ELSE Reached("call", "", NoWindow,
                     [from    |-> IF is_latest(q) THEN "peer_stats_latest" ELSE "peer_stats",
                      filters |-> peers_filters(q),
                      order   |-> None,
                      range   |-> Some(<<lh.low, lh.high>>),
                      rpc     |-> None],
                     pp[1], pp[2])

(***************************************************************************)
(* What the store returns and what each handler makes of it.               *)
(***************************************************************************)
StoreFailures == {"request_failed", "text_failed", "undecodable"}

Outcome(kind, rows) == [kind |-> kind, rows |-> rows]

\* The first n rows of the relation a handler reads.
BrokerRawRow(i) ==
    [ts_start |-> "1970-01-01T00:00:00", ts_end |-> "1970-01-01T00:05:00",
     collector_id |-> IF i % 2 = 1 THEN "rrc00" ELSE "route-views2",
     data_type |-> "update", url |-> "https://data.example/updates", rough_size |-> i,
     exact_size |-> i]

AsnInfoRow(i) == [asn |-> 13334 + i, as_name |-> "CLOUDFLARENET", country_code |-> "US"]

PeerStatsRow(i) ==
    [date |-> "2022-01-05", collector |-> "rrc00", ip |-> "192.0.2.1", asn |-> 13334 + i,
     num_v4_pfxs |-> 10, num_v6_pfxs |-> 10, num_connected_asns |-> 1]

RoasRawRow(i) ==
    [asn |-> 13334 + i, max_len |-> 24, prefix |-> "192.0.2.0/24", tal |-> "arin",
     date_ranges |->
        IF i % 2 = 1
        THEN << <<"[", "2022-01-01", ",", "2022-01-05", "]">>,
                <<"[", "2022-01-07", ",", "2022-01-10", ")">> >>
        ELSE <<>>]

Rows(row(_), n) == [i \in 1..n |-> row(i)]

\* str::contains("rrc")
contains_rrc(s) == s \in {"rrc00"}

\* BrokerRawEntry::to_entry
to_entry(raw) ==
    [ts_start |-> raw.ts_start, ts_end |-> raw.ts_end,
     project |-> IF contains_rrc(raw.collector_id) THEN "riperis" ELSE "route-views",
     collector |-> raw.collector_id, data_type |-> raw.data_type, url |-> raw.url,
     size |-> raw.rough_size]

\* execute(db_query).await?; serde_json::from_str(..).unwrap(); BrokerResponse
search_broker_response(r, outcome) ==
    IF ~execute(outcome).ok THEN into_response(execute(outcome).err)
    ELSE IF outcome.kind = "undecodable" THEN Panicked
    ELSE Json([page |-> r.page, page_size |-> r.page_size,
               data |-> Map(to_entry, outcome.rows),
               count |-> Len(outcome.rows)])

\* db_query.execute().await.unwrap(); response.text().await.unwrap(); from_str(..).unwrap()
search_asninfo_response(r, outcome) ==
    IF outcome.kind \in StoreFailures THEN Panicked
    ELSE Json([page |-> r.page, page_size |-> r.page_size, data |-> outcome.rows])

search_peer_stats_response(r, outcome) ==
    IF outcome.kind \in StoreFailures THEN Panicked
    ELSE Json([page |-> r.page, page_size |-> r.page_size,
               count |-> Len(outcome.rows), data |-> outcome.rows])

\* RoasEntry of a raw entry: entry.to_roas_entry(true)
roas_entry_of(raw, now_date) ==
    LET e == to_roas_entry(raw.date_ranges, TRUE, now_date)
    IN  [panic |-> e.panic, asn |-> raw.asn, max_len |-> raw.max_len,
         prefix |-> raw.prefix, tal |-> raw.tal, current |-> e.current,
         date_ranges |-> e.date_ranges]

search_roas_response(r, outcome, now_date) ==
    LET data == [i \in 1..Len(outcome.rows) |-> roas_entry_of(outcome.rows[i], now_date)]
    IN  IF outcome.kind \in StoreFailures THEN Panicked
        ELSE IF \E i \in 1..Len(data) : data[i].panic THEN Panicked
        ELSE Json([page |-> r.page, page_size |-> r.page_size, data |-> data])

(***************************************************************************)
(* State.                                                                  *)
(*   build_checks    the build: overflow checks on or off                  *)
(*   pc              "idle", "awaiting" (the store call is pending), "done"*)
(*   endpoint        the handler serving the request                       *)
(*   req_query       Query<...SearchQuery>                                 *)
(*   req_pagination  Query<Pagination>                                     *)
(*   reached         the handler's locals at its store call (Reached)      *)
(*   store_calls     store calls made for the request                      *)
(*   store_result    what the store returned                               *)
(*   response        what the caller gets                                  *)
(*   today           the day Utc::now() / Utc::today() returns             *)
(*   roas_raw, roas_fix, roas_pc, roas_entry                               *)
(*                   the argument, the position and the result of one call *)
(*                   of to_roas_entry                                      *)
(*   roas_again      the result of to_roas_entry on the intervals of       *)
(*                   roas_entry, taken as a raw entry again                *)
(***************************************************************************)
VARIABLES build_checks, pc, endpoint, req_query, req_pagination, reached,
          store_calls, store_result, response, today,
          roas_raw, roas_fix, roas_pc, roas_entry, roas_again

request_vars == <<build_checks, pc, endpoint, req_query, req_pagination, reached,
                  store_calls, store_result, response>>
roas_vars == <<roas_raw, roas_fix, roas_pc, roas_entry, roas_again>>
vars == <<request_vars, today, roas_vars>>

(***************************************************************************)
(* The requests the model sends.                                           *)
(***************************************************************************)
\* 0x5555555555555555 = (2^64 - 1) / 3
ThirdOfMAX == [k \in 1..NLimbs |-> (LimbBase - 1) \div 3]

Pages == {None, Some(Usize(1)), Some(ThirdOfMAX), Some(UsizeMAX)}
PageSizes == {None, Some(Usize(0)), Some(Usize(3)), Some(Usize(1000)), Some(Usize(1001))}
Paginations == [page : Pages, page_size : PageSizes]

TimeStrings == {None, Some("60"), Some("1970-01-01T00:02:00"), Some("not-a-date"),
                Some("9223372036854775807")}
DurationStrings == {None, Some("1m"), Some("soon"), Some("300000years"),
                    Some("1000000000years")}

BrokerQueries ==
    [ts_start   : TimeStrings,
     ts_end     : TimeStrings,
     duration   : DurationStrings,
     project    : {None, Some("rv"), Some("bogus")},
     collectors : {None, Some(<<"r", "r", "c", "0", "0", ",", " ", "r", "v", "2">>)},
     data_type  : {None, Some("RIB"), Some("BOGUS")}]

AsninfoQueries ==
    [asn     : {None, Some(13335)},
     asns    : {None, Some(<<"1", "3", ",", " ", "7">>)},
     name    : {None, Some("cloud")},
     country : {None, Some("US")}]

RoasQueries ==
    [asn     : {None, Some(13335)},
     prefix  : {None, Some("192.0.2.0/24")},
     tal     : {None},
     date    : {None, Some("2022-01-05")},
     current : {None, Some(TRUE), Some(FALSE)},
     max_len : {None}]

PeerStatsQueries ==
    [ip            : {None},
     asn           : {None, Some(13335)},
     date          : {None, Some("2022-01-05"), Some("yesterday")},
     collector     : {None, Some("rrc00")},
     min_v4        : {None, Some(100)},
     min_v6        : {None},
     min_connected : {None},
     latest        : {None, Some(TRUE), Some(FALSE)}]

DateOf(s) == Unwrap(parse_date(s))
Todays == {DateOf("2022-01-11"), DateOf("2022-01-12"), DateOf("2022-01-14")}

Outcomes(row(_)) ==
    {Outcome(k, <<>>) : k \in StoreFailures}
    \cup {Outcome("rows", Rows(row, n)) : n \in 0..MaxRows}

NoRequest == [none |-> TRUE]
NotReached == Reached("none", "", NoWindow, NoQuery, Usize(0), Usize(0))
NoOutcome == Outcome("none", <<>>)
NoEntry == [panic |-> FALSE, current |-> FALSE, date_ranges |-> <<>>]

RoasIdle ==
    /\ roas_raw = <<>>
    /\ roas_fix = FALSE
    /\ roas_pc = "off"
    /\ roas_entry = NoEntry
    /\ roas_again = NoEntry

Init ==
    /\ build_checks \in Builds
    /\ pc = "idle"
    /\ endpoint = "none"
    /\ req_query = NoRequest
    /\ req_pagination = [page |-> None, page_size |-> None]
    /\ reached = NotReached
    /\ store_calls = 0
    /\ store_result = NoOutcome
    /\ response = NoResponse
    /\ today = DateOf("2022-01-11")
    /\ RoasIdle

(***************************************************************************)
(* A handler runs from the request to its store call in one step (it does  *)
(* not await before), and from the store's answer to its response in       *)
(* another.                                                                *)
(***************************************************************************)
Begin(name, q, p, r) ==
    /\ endpoint' = name
    /\ req_query' = q
    /\ req_pagination' = p
    /\ reached' = r
    /\ store_result' = store_result
    /\ IF r.tag = "call"
       THEN /\ pc' = "awaiting"
            /\ store_calls' = store_calls + 1
            /\ response' = NoResponse
       ELSE /\ pc' = "done"
            /\ store_calls' = store_calls
            /\ response' = IF r.tag = "bad_request"
                           THEN into_response(new_bad_request(r.msg))
                           ELSE Panicked
    /\ UNCHANGED <<build_checks, roas_vars>>

Resume(outcome, resp) ==
    /\ store_result' = outcome
    /\ response' = resp
    /\ pc' = "done"
    /\ UNCHANGED <<build_checks, endpoint, req_query, req_pagination, reached,
                   store_calls, today, roas_vars>>

search_broker ==
    /\ pc = "idle"
    /\ \E q \in BrokerQueries, p \in Paginations :
        /\ Begin("broker", q, p, search_broker_query(q, p, build_checks))
        /\ UNCHANGED today

search_broker_resume ==
    /\ pc = "awaiting"
    /\ endpoint = "broker"
    /\ \E o \in Outcomes(BrokerRawRow) :
        Resume(o, search_broker_response(reached, o))

search_asninfo ==
    /\ pc = "idle"
    /\ \E q \in AsninfoQueries, p \in Paginations :
        /\ Begin("asninfo", q, p, search_asninfo_query(q, p, build_checks))
        /\ UNCHANGED today

search_asninfo_resume ==
    /\ pc = "awaiting"
    /\ endpoint = "asninfo"
    /\ \E o \in Outcomes(AsnInfoRow) :
        Resume(o, search_asninfo_response(reached, o))

search_roas ==
    /\ pc = "idle"
    /\ \E q \in RoasQueries, p \in Paginations, now_date \in Todays :
        /\ Begin("roas", q, p, search_roas_query(q, p, build_checks, now_date))
        /\ today' = now_date

search_roas_resume ==
    /\ pc = "awaiting"
    /\ endpoint = "roas"
    /\ \E o \in Outcomes(RoasRawRow) :
        Resume(o, search_roas_response(reached, o, today))

search_peer_stats ==
    /\ pc = "idle"
    /\ \E q \in PeerStatsQueries, p \in Paginations :
        /\ Begin("peers", q, p, search_peer_stats_query(q, p, build_checks))
        /\ UNCHANGED today

search_peer_stats_resume ==
    /\ pc = "awaiting"
    /\ endpoint = "peers"
    /\ \E o \in Outcomes(PeerStatsRow) :
        Resume(o, search_peer_stats_response(reached, o))

Next ==
    \/ search_broker
    \/ search_broker_resume
    \/ search_asninfo
    \/ search_asninfo_resume
    \/ search_roas
    \/ search_roas_resume
    \/ search_peer_stats
    \/ search_peer_stats_resume

Spec == Init /\ [][Next]_vars

(***************************************************************************)
(* to_roas_entry on its own: every list of at most MaxIntervals raw        *)
(* intervals of RawPool, in any order, with and without fix_gaps, on each  *)
(* of the days of Todays.                                                  *)
(***************************************************************************)
MaxIntervals == 3

Raw(lb, d0, d1, ub) == <<lb, d0, ",", d1, ub>>

RawPool ==
    { Raw("[", "2022-01-01", "2022-01-05", "]"),
      Raw("[", "2022-01-07", "2022-01-10", "]"),
      Raw("[", "2022-01-08", "2022-01-10", "]"),
      Raw("[", "2022-01-06", "2022-01-10", "]"),
      Raw("[", "2022-01-01", "2022-01-06", ")"),
      Raw("(", "2022-01-06", "2022-01-10", "]"),
      Raw("(", "2022-01-11", "2022-01-13", ")"),
      Raw("[", "2021-12-30", "2021-12-31", ")"),
      Raw("[", "2022-01-12", "2022-01-13", "]") }

RawLists == UNION { [1..n -> RawPool] : n \in 0..MaxIntervals }

InitRoas ==
    /\ build_checks = FALSE
    /\ pc = "idle"
    /\ endpoint = "none"
    /\ req_query = NoRequest
    /\ req_pagination = [page |-> None, page_size |-> None]
    /\ reached = NotReached
    /\ store_calls = 0
    /\ store_result = NoOutcome
    /\ response = NoResponse
    /\ today \in Todays
    /\ roas_raw \in RawLists
    /\ roas_fix \in BOOLEAN
    /\ roas_pc = "called"
    /\ roas_entry = NoEntry
    /\ roas_again = NoEntry

call_to_roas_entry ==
    /\ roas_pc = "called"
    /\ roas_entry' = to_roas_entry(roas_raw, roas_fix, today)
    /\ roas_pc' = "returned"
    /\ UNCHANGED <<request_vars, today, roas_raw, roas_fix, roas_again>>

\* The intervals of a RoasEntry as the date_ranges of a RoasRawEntry: each
\* pair of dates written as an inclusive range, "[2022-01-01,2022-01-10]".
as_inclusive(date_ranges) ==
    [i \in 1..Len(date_ranges) |-> Raw("[", date_ranges[i][1], date_ranges[i][2], "]")]

\* to_roas_entry called on its own result, with the same fix_gaps.
call_to_roas_entry_again ==
    /\ roas_pc = "returned"
    /\ ~roas_entry.panic
    /\ roas_again' = to_roas_entry(as_inclusive(roas_entry.date_ranges), roas_fix, today)
    /\ roas_pc' = "renormalized"
    /\ UNCHANGED <<request_vars, today, roas_raw, roas_fix, roas_entry>>

NextRoas ==
    \/ call_to_roas_entry
    \/ call_to_roas_entry_again

SpecRoas == InitRoas /\ [][NextRoas]_vars

(***************************************************************************)
(* Properties of to_roas_entry, checked under SpecRoas.                    *)
(***************************************************************************)
\* The closed interval a raw interval denotes, read off its lexemes.
RawClosed(raw) ==
    << DateOf(raw[2]) + (IF raw[1] = "(" THEN 1 ELSE 0),
       DateOf(raw[4]) - (IF raw[5] = ")" THEN 1 ELSE 0) >>

ClosedIn == [i \in 1..Len(roas_raw) |-> RawClosed(roas_raw[i])]

OutDates ==
    [i \in 1..Len(roas_entry.date_ranges) |->
        << DateOf(roas_entry.date_ranges[i][1]), DateOf(roas_entry.date_ranges[i][2]) >>]

Returned == roas_pc \in {"returned", "renormalized"} /\ ~roas_entry.panic

\* The intervals that start a run: the first, and each one that does not
\* start two days after the end of the one before it.
RunStarts(c) == {1} \cup {i \in 2..Len(c) : c[i][1] # c[i-1][2] + 2}
RunEnd(c, a) ==
    IF \E b \in RunStarts(c) : b > a
    THEN (CHOOSE b \in RunStarts(c) : b > a /\ \A x \in RunStarts(c) : x > a => b <= x) - 1
    ELSE Len(c)
Kth(S, k) == CHOOSE x \in S : Cardinality({y \in S : y < x}) = k - 1
MergedRuns(c) ==
    [k \in 1..Cardinality(RunStarts(c)) |->
        << c[Kth(RunStarts(c), k)][1], c[RunEnd(c, Kth(RunStarts(c), k))][2] >>]

Example_OneDayGap ==
    << Raw("[", "2022-01-01", "2022-01-05", "]"), Raw("[", "2022-01-07", "2022-01-10", "]") >>
Example_TwoDayGap ==
    << Raw("[", "2022-01-01", "2022-01-05", "]"), Raw("[", "2022-01-08", "2022-01-10", "]") >>

(***************************************************************************)
(* C7.  With fix_gaps, walking the closed intervals in input order, an     *)
(* interval is merged into the running one exactly when it starts two days *)
(* after the running end; the output is the runs so formed, the last one   *)
(* included.  [01-01,01-05],[01-07,01-10] gives [01-01,01-10];             *)
(* [01-01,01-05],[01-08,01-10] stays two intervals.                        *)
(***************************************************************************)
C7_GapMerge ==
    (Returned /\ roas_fix /\ roas_raw # <<>>)
    => /\ OutDates = MergedRuns(ClosedIn)
       /\ OutDates[Len(OutDates)][2] = ClosedIn[Len(ClosedIn)][2]
       /\ roas_raw = Example_OneDayGap
            => roas_entry.date_ranges = << <<"2022-01-01", "2022-01-10">> >>
       /\ roas_raw = Example_TwoDayGap
            => roas_entry.date_ranges = << <<"2022-01-01", "2022-01-05">>,
                                           <<"2022-01-08", "2022-01-10">> >>

\* Three intervals, the first two merged over a one-day gap, the third kept apart.
C7_Witness ==
    /\ Returned /\ roas_fix
    /\ Len(roas_raw) = 3
    /\ Len(roas_entry.date_ranges) = 2
    /\ ClosedIn[2][1] = ClosedIn[1][2] + 2
    /\ ClosedIn[3][1] # ClosedIn[2][2] + 2

\* Closed pairs in ascending order, pairwise non-overlapping.
WellOrdered(rs) ==
    /\ \A i \in 1..Len(rs) : rs[i][1] <= rs[i][2]
    /\ \A i \in 1..(Len(rs) - 1) : rs[i][2] < rs[i+1][1]

(***************************************************************************)
(* C8 as stated.  For any input list the output is a sequence of closed    *)
(* date pairs in ascending order, pairwise non-overlapping.                *)
(***************************************************************************)
C8_AnyInputWellOrdered == Returned => WellOrdered(OutDates)

(***************************************************************************)
(* C8 amended.  For an input list whose closed intervals are in ascending  *)
(* order and pairwise non-overlapping, the output is in ascending order    *)
(* and pairwise non-overlapping.                                           *)
(***************************************************************************)
C8_OrderedInputWellOrdered ==
    (Returned /\ WellOrdered(ClosedIn)) => WellOrdered(OutDates)

\* An ordered input of three intervals that the walk merged into one.
C8_Witness ==
    /\ Returned /\ roas_fix
    /\ WellOrdered(ClosedIn)
    /\ Len(roas_raw) = 3
    /\ Len(roas_entry.date_ranges) = 1

(***************************************************************************)
(* C9.  Normalizing a record with zero raw intervals with fix_gaps does    *)
(* not fail: it gives an empty interval list and current = false.          *)
(***************************************************************************)
C9_EmptyInput ==
    (roas_pc = "returned" /\ roas_fix /\ roas_raw = <<>>)
    => /\ ~roas_entry.panic
       /\ roas_entry.date_ranges = <<>>
       /\ roas_entry.current = FALSE

(***************************************************************************)
(* C10.  current is true exactly when some closed interval of the record   *)
(* ends on or after today - 1 day, over all raw intervals, merged or not.  *)
(***************************************************************************)
C10_Current ==
    Returned
    => (roas_entry.current <=> \E i \in 1..Len(ClosedIn) : ClosedIn[i][2] >= today - 1)

\* The latest interval ended yesterday, and it is not the last of the list.
C10_Witness ==
    /\ Returned /\ roas_fix
    /\ roas_entry.current
    /\ Len(roas_raw) = 3
    /\ ClosedIn[1][2] = today - 1
    /\ \A i \in 2..3 : ClosedIn[i][2] < today - 1

(***************************************************************************)
(* C11.  For every non-empty input list, the interval list produced with   *)
(* fix_gaps, taken as inclusive intervals and normalized again with        *)
(* fix_gaps, comes out exactly the same.                                   *)
(***************************************************************************)
C11_Idempotent ==
    (roas_pc = "renormalized" /\ roas_fix /\ roas_raw # <<>>)
    => /\ ~roas_again.panic
       /\ roas_again.date_ranges = roas_entry.date_ranges

\* Three intervals of which two were merged, normalized a second time.
C11_Witness ==
    /\ roas_pc = "renormalized" /\ roas_fix
    /\ Len(roas_raw) = 3
    /\ Len(roas_entry.date_ranges) = 2
    /\ Len(roas_again.date_ranges) = 2

(***************************************************************************)
(* Properties of the request handlers, checked under Spec.                 *)
(***************************************************************************)
\* The request went through Pagination: every endpoint but the peer
\* statistics in latest mode.
UserPaginated ==
    /\ pc # "idle"
    /\ endpoint = "peers" => ~is_latest(req_query)

DefaultSize ==
    CASE endpoint = "broker" -> 10
      [] endpoint = "asninfo" -> 50
      [] endpoint = "roas" -> 100
      [] endpoint = "peers" -> 10

RequestedSize == Unwrap(req_pagination.page_size)

\* [low, high] = [page * page_size, page * page_size + page_size - 1], exactly.
ExactRange(page, page_size, low, high) ==
    /\ ~UMul(page, page_size).of
    /\ low = UMul(page, page_size).v
    /\ ~UAdd(low, page_size).of
    /\ ~USub(UAdd(low, page_size).v, Usize(1)).of
    /\ high = USub(UAdd(low, page_size).v, Usize(1)).v

(***************************************************************************)
(* C1.  For every page, every requested page_size > 0 and the ceiling of   *)
(* the endpoint, the normalized page_size is the requested one when it is  *)
(* <= the ceiling and the ceiling otherwise, an absent page is 0, an       *)
(* absent page_size the endpoint default, and the range passed to the      *)
(* store is [page * page_size, page * page_size + page_size - 1].          *)
(***************************************************************************)
C1_PaginationRange ==
    (UserPaginated /\ reached.tag = "call"
       /\ (req_pagination.page_size # None => UGt(RequestedSize, Usize(0))))
    => /\ reached.page = (IF req_pagination.page = None THEN Usize(0)
                          ELSE Unwrap(req_pagination.page))
       /\ reached.page_size =
            (IF req_pagination.page_size = None THEN Usize(DefaultSize)
             ELSE IF ULe(RequestedSize, Usize(1000)) THEN RequestedSize
             ELSE Usize(1000))
       /\ req_pagination.page_size # None => ULe(reached.page_size, Usize(1000))
       /\ IF endpoint = "roas"
          THEN /\ ~UMul(reached.page, reached.page_size).of
               /\ Unwrap(reached.db_query.rpc).res_offset
                    = UMul(reached.page, reached.page_size).v
               /\ Unwrap(reached.db_query.rpc).res_limit = reached.page_size
          ELSE ExactRange(reached.page, reached.page_size,
                          Unwrap(reached.db_query.range)[1],
                          Unwrap(reached.db_query.range)[2])

\* The handler got as far as its pagination: it sent the query, or it
\* panicked and not while resolving the time window.
PaginationReached ==
    \/ reached.tag = "call"
    \/ /\ reached.tag = "panic"
       /\ endpoint = "broker" => time_window(req_query).tag = "ok"

(***************************************************************************)
(* C2.  page_size = 0 is legal on every paginated endpoint: for any page   *)
(* the handler computes the store range without failing or wrapping, and   *)
(* the requested range is empty.                                           *)
(***************************************************************************)
C2_ZeroPageSize ==
    (UserPaginated /\ PaginationReached /\ req_pagination.page_size = Some(Usize(0)))
    => /\ reached.tag = "call"
       /\ IF endpoint = "roas"
          THEN Unwrap(reached.db_query.rpc).res_limit = Usize(0)
          ELSE UGt(Unwrap(reached.db_query.range)[1], Unwrap(reached.db_query.range)[2])

\* The instants the time literals of the requests denote.
GivenTimes == {Some("60"), Some("1970-01-01T00:02:00")}
GivenTime(o) == IF o = Some("60") THEN 60 ELSE 120

(***************************************************************************)
(* C3.  In search_broker a start T and a duration D with no end resolve    *)
(* the end to T + D; an end T and a duration D with no start resolve the   *)
(* start to T - D; with both start and end, or neither, the duration is    *)
(* ignored: the handler goes on as it does without a duration, whether or  *)
(* not the duration parses.                                                *)
(***************************************************************************)
C3_WindowResolution ==
    (endpoint = "broker" /\ pc # "idle")
    => /\ (reached.tag = "call" /\ req_query.ts_start \in GivenTimes
             /\ req_query.ts_end = None /\ req_query.duration = Some("1m"))
          => reached.window = [ts_start |-> Some(GivenTime(req_query.ts_start)),
                               ts_end   |-> Some(GivenTime(req_query.ts_start) + 60)]
       /\ (reached.tag = "call" /\ req_query.ts_end \in GivenTimes
             /\ req_query.ts_start = None /\ req_query.duration = Some("1m"))
          => reached.window = [ts_start |-> Some(GivenTime(req_query.ts_end) - 60),
                               ts_end   |-> Some(GivenTime(req_query.ts_end))]
       /\ ((req_query.ts_start = None) <=> (req_query.ts_end = None))
          => /\ reached = search_broker_query([req_query EXCEPT !.duration = None],
                                              req_pagination, build_checks)
             /\ (reached.tag = "call" /\ req_query.ts_start # None)
                => reached.window = [ts_start |-> Some(GivenTime(req_query.ts_start)),
                                     ts_end   |-> Some(GivenTime(req_query.ts_end))]

\* An end of 00:02:00 and a duration of a minute: the start is 00:01:00.
C3_Witness ==
    /\ endpoint = "broker" /\ pc = "awaiting"
    /\ req_query.ts_end = Some("1970-01-01T00:02:00")
    /\ req_query.ts_start = None
    /\ req_query.duration = Some("1m")
    /\ reached.window.ts_start = Some(60)
    /\ reached.db_query.filters[2] = Filter("gte", "ts_end", "1970-01-01T00:01:00")

(***************************************************************************)
(* C4.  After the time window is resolved in search_broker, whenever both  *)
(* bounds are resolved, start <= end holds for the window that is turned   *)
(* into store predicates.                                                  *)
(***************************************************************************)
C4_WindowOrdered ==
    (endpoint = "broker" /\ reached.tag = "call"
       /\ reached.window.ts_start # None /\ reached.window.ts_end # None)
    => Unwrap(reached.window.ts_start) <= Unwrap(reached.window.ts_end)

\* The literals of the requests that are neither an integer nor a date-time,
\* and the one that is no duration.
IsBadTime(o) == o = Some("not-a-date")
IsBadDuration(o) == o = Some("soon")
BadRequestWith(msg) ==
    /\ response.kind = "error"
    /\ response.status_code = 400
    /\ response.errors = <<msg>>

(***************************************************************************)
(* C5.  In search_broker a ts_start or ts_end that parses neither as a     *)
(* Unix timestamp nor as a date-time makes the request fail with a Bad     *)
(* Request (400) whose message holds the offending literal; so does an     *)
(* unparsable duration when exactly one of start and end is present.       *)
(***************************************************************************)
C5_BadRequest ==
    (endpoint = "broker" /\ pc # "idle")
    => /\ (IsBadTime(req_query.ts_start) \/ IsBadTime(req_query.ts_end))
          => \E o \in {req_query.ts_start, req_query.ts_end} :
                 IsBadTime(o) /\ BadRequestWith("cannot parse time string: " \o Unwrap(o))
       /\ (IsBadDuration(req_query.duration)
             /\ ~IsBadTime(req_query.ts_start) /\ ~IsBadTime(req_query.ts_end)
             /\ ((req_query.ts_start = None) # (req_query.ts_end = None)))
          => BadRequestWith("cannot parse time duration string: "
                            \o Unwrap(req_query.duration))

(***************************************************************************)
(* C6.  On every endpoint, when the store request fails or the body cannot *)
(* be read or decoded, the request ends with an Internal error response    *)
(* {status_code: 500, errors}, and the store was called once.              *)
(***************************************************************************)
C6_StoreFailure ==
    (pc = "done" /\ store_result.kind \in StoreFailures)
    => /\ response.kind = "error"
       /\ response.status_code = 500
       /\ response.errors # <<>>
       /\ store_calls = 1


(***************************************************************************)
(* C12.  A project outside {route-views, routeviews, rv, ripe, ripencc,    *)
(* riperis, ris}, or a data_type outside its synonym table, never fails    *)
(* the broker request: no predicate is emitted for the field, and the      *)
(* handler does exactly what it does for the same request without the      *)
(* field.                                                                  *)
(***************************************************************************)
KnownProjects == {"route-views", "routeviews", "rv", "ripe", "ripencc", "riperis", "ris"}
KnownDataTypes == {"update", "updates", "u", "rib", "ribs", "r"}
UnknownProject(o) == o # None /\ Unwrap(o) \notin KnownProjects
UnknownDataType(o) == o # None /\ to_lowercase(Unwrap(o)) \notin KnownDataTypes
FiltersOf(r) == {r.db_query.filters[i] : i \in 1..Len(r.db_query.filters)}

C12_UnknownVocabulary ==
    (endpoint = "broker" /\ pc # "idle")
    => /\ UnknownProject(req_query.project)
            => /\ reached = search_broker_query([req_query EXCEPT !.project = None],
                                                req_pagination, build_checks)
               /\ \A f \in FiltersOf(reached) : f.op # "ilike"
       /\ UnknownDataType(req_query.data_type)
            => /\ reached = search_broker_query([req_query EXCEPT !.data_type = None],
                                                req_pagination, build_checks)
               /\ \A f \in FiltersOf(reached) : f.column # "data_type"

\* project=bogus, data_type=BOGUS with a collectors list: the request is
\* answered with rows, and its only predicate is the collectors one.
C12_Witness ==
    /\ endpoint = "broker" /\ pc = "done"
    /\ req_query.project = Some("bogus")
    /\ req_query.data_type = Some("BOGUS")
    /\ req_query.collectors # None
    /\ Len(reached.db_query.filters) = 1
    /\ response.kind = "json"
    /\ response.body[1].count = MaxRows


(***************************************************************************)
(* C13.  The response envelope of the asninfo, broker and peers endpoints  *)
(* carries page, page_size and a count field equal to the number of        *)
(* records in data.                                                        *)
(***************************************************************************)
Envelope == response.body[1]
Answered(names) == pc = "done" /\ response.kind = "json" /\ endpoint \in names

C13_EnvelopeCount ==
    Answered({"asninfo", "broker", "peers"})
    => /\ {"page", "page_size", "count", "data"} \subseteq DOMAIN Envelope
       /\ Envelope.count = Len(Envelope.data)


(***************************************************************************)
(* C14.  With latest absent or true the peer statistics endpoint ignores   *)
(* the user's page and page_size (and date) and queries the latest         *)
(* snapshot with page = 0, page_size = 10000, store range [0, 9999]; only  *)
(* with latest = false are the user's pagination values, clamped to 1000,  *)
(* and the date filter applied.                                            *)
(***************************************************************************)
LatestMode == req_query.latest \in {None, Some(TRUE)}
DateFilters == {f \in FiltersOf(reached) : f.column = "date"}

C14_PeersLatest ==
    (endpoint = "peers" /\ pc # "idle")
    => /\ LatestMode
            => /\ reached.tag = "call"
               /\ reached.page = Usize(0)
               /\ reached.page_size = Usize(10000)
               /\ reached.db_query.range = Some(<<Usize(0), Usize(9999)>>)
               /\ DateFilters = {}
       /\ (~LatestMode /\ reached.tag # "bad_request")
            => /\ reached.page = (IF req_pagination.page = None THEN Usize(0)
                                  ELSE Unwrap(req_pagination.page))
               /\ reached.page_size =
                    (IF req_pagination.page_size = None THEN Usize(10)
                     ELSE IF UGt(RequestedSize, Usize(1000)) THEN Usize(1000)
                     ELSE RequestedSize)
               /\ reached.tag = "call"
                    => (DateFilters # {} <=> req_query.date # None)

\* latest=true with a page, a page_size and a date that does not parse: all
\* three are ignored and the request is answered.
C14_Witness ==
    /\ endpoint = "peers" /\ pc = "done"
    /\ req_query.latest = Some(TRUE)
    /\ req_query.date = Some("yesterday")
    /\ req_pagination.page = Some(UsizeMAX)
    /\ req_pagination.page_size = Some(Usize(3))
    /\ reached.db_query.range = Some(<<Usize(0), Usize(9999)>>)
    /\ response.kind = "json"


(***************************************************************************)
(* C15.  Every comma-separated multi-value field (broker collectors,       *)
(* asninfo asns) is split on ',' and each element is trimmed of its        *)
(* surrounding whitespace before it goes into the set-membership           *)
(* predicate, so "a, b" and "a,b" give the same predicate.                 *)
(***************************************************************************)
NoSpaces(s) == SelectSeq(s, LAMBDA c : c \notin {" "})
Trimmed(e) == e = <<>> \/ (Head(e) # " " /\ e[Len(e)] # " ")
MembersTrimmed ==
    \A f \in FiltersOf(reached) :
        f.op = "in" => \A i \in 1..Len(f.value) : Trimmed(f.value[i])

C15_SplitTrim ==
    /\ (endpoint = "broker" /\ reached.tag = "call" /\ req_query.collectors # None)
        => /\ MembersTrimmed
           /\ reached.db_query.filters =
                search_broker_query(
                    [req_query EXCEPT !.collectors = Some(NoSpaces(Unwrap(@)))],
                    req_pagination, build_checks).db_query.filters
    /\ (endpoint = "asninfo" /\ reached.tag = "call" /\ req_query.asns # None)
        => /\ MembersTrimmed
           /\ reached.db_query.filters =
                search_asninfo_query(
                    [req_query EXCEPT !.asns = Some(NoSpaces(Unwrap(@)))],
                    req_pagination, build_checks).db_query.filters


(***************************************************************************)
(* C16.  A raw interval starting with '(' has its start advanced by        *)
(* exactly one day, one ending with ')' has its end retracted by exactly   *)
(* one day, '[' and ']' leave the date as it is; the currency test and the *)
(* gap-merge both work on the adjusted dates.  Checked under SpecRoas.     *)
(***************************************************************************)
StartShift(raw) == IF raw[1] = "(" THEN 1 ELSE 0
EndShift(raw) == IF raw[Len(raw)] = ")" THEN 1 ELSE 0
Adjusted ==
    [i \in 1..Len(roas_raw) |->
        << DateOf(roas_raw[i][2]) + StartShift(roas_raw[i]),
           DateOf(roas_raw[i][4]) - EndShift(roas_raw[i]) >>]

C16_ExclusiveEndpoints ==
    Returned
    => /\ ~roas_fix => OutDates = Adjusted
       /\ roas_entry.current
            <=> \E i \in 1..Len(Adjusted) : Adjusted[i][2] >= today - 1
       /\ (roas_fix /\ roas_raw # <<>>) => OutDates = MergedRuns(Adjusted)

\* [01-01,01-06), (01-06,01-10], (01-11,01-13) on 01-14: the three merge over
\* one-day gaps that only the adjusted dates have, and the adjusted end
\* 01-12 is too old to be current where the written end 01-13 is not.
C16_Witness ==
    /\ Returned /\ roas_fix
    /\ today = DateOf("2022-01-14")
    /\ roas_raw = << Raw("[", "2022-01-01", "2022-01-06", ")"),
                     Raw("(", "2022-01-06", "2022-01-10", "]"),
                     Raw("(", "2022-01-11", "2022-01-13", ")") >>
    /\ roas_entry.date_ranges = << <<"2022-01-01", "2022-01-12">> >>
    /\ ~roas_entry.current


=============================================================================
